---- MODULE Spec2Model ----
(***************************************************************************)
(* Control-flow model of src/app.py: the Streamlit script main() and the   *)
(* RealEstateChatbot pipeline (credential validation, index build/reuse,   *)
(* intent classification, response routing).                               *)
(*                                                                         *)
(* One run of main() is a sequence of steps driven by pc.  External calls  *)
(* (OpenAI, CSVLoader, Chroma, RetrievalQA) either return or raise; both   *)
(* outcomes are drawn with \E.  Text is a sequence of one-character        *)
(* strings so that strip() and upper() are computed, not assumed.          *)
(* Variables prefixed g_ are history variables: they record what happened  *)
(* and never influence the control flow.                                   *)
(***************************************************************************)
EXTENDS Integers, Sequences, FiniteSets, TLC

\* ---------------------------------------------------------------- bounds
MaxRuns == 3        \* runs of main() explored in one session
MaxChunks == 2      \* largest number of chunks a dataset / index holds

\* ------------------------------------------------------ program constants
K == 5              \* search_kwargs={"k": 5}

\* ------------------------------------------------------------------ text
WS == {" ", "\n"}

UpperOf(c) ==
  CASE c = "g" -> "G" [] c = "e" -> "E" [] c = "n" -> "N" [] c = "r" -> "R"
    [] c = "a" -> "A" [] c = "l" -> "L" [] c = "o" -> "O" [] c = "k" -> "K"
    [] OTHER -> c

\* str.upper()
Upper(s) == [i \in 1..Len(s) |-> UpperOf(s[i])]

RECURSIVE LStrip(_)
LStrip(s) == IF s # <<>> /\ Head(s) \in WS THEN LStrip(Tail(s)) ELSE s

RECURSIVE RStrip(_)
RStrip(s) ==
  IF s # <<>> /\ s[Len(s)] \in WS THEN RStrip(SubSeq(s, 1, Len(s) - 1)) ELSE s

\* str.strip()
Strip(s) == RStrip(LStrip(s))

GENERAL == <<"G", "E", "N", "E", "R", "A", "L">>
PROPERTY == <<"P", "R", "O", "P", "E", "R", "T", "Y">>

\* Texts chat_model.predict may return to the classification prompt.
ClassifyReplies ==
  { GENERAL,
    <<" ", "g", "e", "n", "e", "r", "a", "l", "\n">>,
    PROPERTY,
    <<"G", "E", "N", "E", "R", "A", "L", ".">>,
    <<>> }

\* Texts the model may return to a generation prompt / the chain.
GenerateReplies == { <<" ", "o", "k", "\n">>, <<" ">> }

\* Stand-ins for the three fixed strings of the program.
Greeting == <<"H", "e", "l", "l", "o">>
FallbackGreeting == <<"H", "e", "l", "l", "o", "!">>
Apology == <<"s", "o", "r", "r", "y">>

Queries == { <<"h", "i">> }

\* Values typed into the credential field; "" is the empty field.
Keys == {"", "sk-A", "sk-B", "bad"}
BadKeys == {"bad"}

\* -------------------------------------------------------------- handles
NoneH == [set |-> FALSE, key |-> "", size |-> 0]
Handle(k, n) == [set |-> TRUE, key |-> k, size |-> n]

NoFile == [exists |-> FALSE, size |-> 0]
File(n) == [exists |-> TRUE, size |-> n]

Min(a, b) == IF a < b THEN a ELSE b

NoResponse == [raised |-> FALSE, text |-> <<>>, docs |-> <<>>]

VARIABLES
  dataset,          \* Property_data.csv: exists, number of chunks it yields
  chroma_db,        \* the chroma_db directory: exists, chunks it holds
  session_keys,     \* keys present in st.session_state
  initialized,      \* st.session_state.initialized
  vectorstore, retriever, chat_model, chain,   \* fields of the chatbot
  messages,         \* st.session_state.messages
  pc,               \* position in main()
  runs,             \* runs of main() started so far
  openai_api_key,   \* value of the sidebar field in this run
  docs,             \* local of initialize_components: number of chunks
  user_query,       \* local of main
  intent,           \* local of get_response
  response,         \* what get_response returns: text and source docs
  g_initLog,        \* steps of initialize_components executed in this run
  g_initResult,     \* "none" | "ok" | "fail": its return value in this run
  g_testResult,     \* "none" | "valid" | "invalid": test_api_key in this run
  g_indexOp,        \* "none" | "opened" | "built" | "build_failed" | "open_failed"
  g_embedCalls,     \* chunks passed to the embedding service in this run
  g_runIndexOps,    \* build-or-load operations in this run
  g_sessIndexOps,   \* build-or-load operations in the session
  g_runInitCalls,   \* calls of initialize_components in this run
  g_failed,         \* setup steps that have failed in the session
  g_retried,        \* a setup step was attempted again after it had failed
  g_calls,          \* per-turn call counts
  g_classify,       \* outcome of the classification call of this turn
  g_generate        \* outcome of the generation / chain call of this turn

env == <<dataset, chroma_db>>
session == <<session_keys, initialized, messages>>
chatbot == <<vectorstore, retriever, chat_model, chain>>
locals == <<openai_api_key, docs, user_query, intent, response>>
g_init == <<g_initLog, g_initResult, g_testResult, g_indexOp, g_embedCalls,
            g_runIndexOps, g_sessIndexOps, g_runInitCalls, g_failed, g_retried>>
g_turn == <<g_calls, g_classify, g_generate>>
vars == <<env, session, chatbot, pc, runs, locals, g_init, g_turn>>

NoCalls == [classify |-> 0, property |-> 0, general |-> 0, chain |-> 0]
NoOutcome == [called |-> FALSE, raised |-> FALSE, raw |-> <<>>]

AtRest == {"idle", "return_warning", "return_error", "rerun_turn",
           "rerun_clear", "end"}

Init ==
  /\ dataset \in {NoFile} \cup {File(n) : n \in 1..MaxChunks}
  /\ chroma_db \in {NoFile} \cup {File(n) : n \in 0..MaxChunks}
  /\ session_keys = {}
  /\ initialized = FALSE
  /\ vectorstore = NoneH /\ retriever = NoneH
  /\ chat_model = NoneH /\ chain = NoneH
  /\ messages = <<>>
  /\ pc = "idle"
  /\ runs = 0
  /\ openai_api_key = ""
  /\ docs = 0
  /\ user_query = <<>>
  /\ intent = <<>>
  /\ response = NoResponse
  /\ g_initLog = <<>>
  /\ g_initResult = "none"
  /\ g_testResult = "none"
  /\ g_indexOp = "none"
  /\ g_embedCalls = 0
  /\ g_runIndexOps = 0
  /\ g_sessIndexOps = 0
  /\ g_runInitCalls = 0
  /\ g_failed = {}
  /\ g_retried = FALSE
  /\ g_calls = NoCalls
  /\ g_classify = NoOutcome
  /\ g_generate = NoOutcome

\* main, lines 203-228: the script starts, the sidebar field is read, the
\* chatbot is created on the first run of the session.
MainStart ==
  /\ pc \in AtRest
  /\ runs < MaxRuns
  /\ runs' = runs + 1
  /\ \E k \in Keys : openai_api_key' = k
  /\ IF "chatbot" \notin session_keys
       THEN /\ session_keys' = session_keys \cup {"chatbot"}
            /\ vectorstore' = NoneH /\ retriever' = NoneH
            /\ chat_model' = NoneH /\ chain' = NoneH
            /\ initialized' = FALSE
       ELSE UNCHANGED <<session_keys, chatbot, initialized>>
  /\ pc' = "init_guard"
  /\ docs' = 0 /\ user_query' = <<>> /\ intent' = <<>>
  /\ response' = NoResponse
  /\ g_initLog' = <<>> /\ g_initResult' = "none" /\ g_testResult' = "none"
  /\ g_indexOp' = "none" /\ g_embedCalls' = 0 /\ g_runIndexOps' = 0
  /\ g_runInitCalls' = 0
  /\ g_calls' = NoCalls /\ g_classify' = NoOutcome /\ g_generate' = NoOutcome
  /\ UNCHANGED <<env, messages, g_sessIndexOps, g_failed, g_retried>>

\* ------------------------------------------------- initialize_components
\* Bookkeeping of one setup step being entered.
Attempt(step) ==
  /\ g_initLog' = Append(g_initLog, step)
  /\ g_retried' = (g_retried \/ step \in g_failed)

\* `return False` of initialize_components (lines 44, 49, 130).
ReturnFalse(step) ==
  /\ g_failed' = g_failed \cup {step}
  /\ g_initResult' = "fail"
  /\ pc' = "init_return"

\* `return True` of initialize_components (line 126).
ReturnTrue ==
  /\ g_initResult' = "ok"
  /\ pc' = "init_return"
  /\ UNCHANGED g_failed

Continue(to) ==
  /\ pc' = to
  /\ UNCHANGED <<g_failed, g_initResult>>

\* Variant of MainInitGuard that does not look at the initialized flag.
MainInitGuard_ignores_flag ==
  /\ pc = "init_guard"
  /\ IF openai_api_key # ""
       THEN /\ pc' = "test_api_key"
            /\ g_runInitCalls' = g_runInitCalls + 1
       ELSE /\ pc' = "gate"
            /\ UNCHANGED g_runInitCalls
  /\ UNCHANGED <<env, session, chatbot, runs, locals, g_initLog, g_initResult,
                 g_testResult, g_indexOp, g_embedCalls, g_runIndexOps,
                 g_sessIndexOps, g_failed, g_retried, g_turn>>

\* main, line 231-232: setup is called when a credential is present and the
\* session is not initialized.
MainInitGuard ==
  /\ pc = "init_guard"
  /\ IF openai_api_key # "" /\ ~initialized
       THEN /\ pc' = "test_api_key"
            /\ g_runInitCalls' = g_runInitCalls + 1
       ELSE /\ pc' = "gate"
            /\ UNCHANGED g_runInitCalls
  /\ UNCHANGED <<env, session, chatbot, runs, locals, g_initLog, g_initResult,
                 g_testResult, g_indexOp, g_embedCalls, g_runIndexOps,
                 g_sessIndexOps, g_failed, g_retried, g_turn>>

\* Variant of TestApiKey whose result is not acted upon: setup goes on after
\* a failed validation.
TestApiKey_result_ignored ==
  /\ pc = "test_api_key"
  /\ Attempt("test_api_key")
  /\ \E ok \in BOOLEAN :
       /\ openai_api_key \in BadKeys => ~ok
       /\ g_testResult' = IF ok THEN "valid" ELSE "invalid"
       /\ Continue("check_dataset")
  /\ UNCHANGED <<env, session, chatbot, runs, locals, g_indexOp, g_embedCalls,
                 g_runIndexOps, g_sessIndexOps, g_runInitCalls, g_turn>>

\* test_api_key (lines 24-37) and its use at lines 43-44.  Any failure of the
\* call (auth, network, quota) makes it return False.
TestApiKey ==
  /\ pc = "test_api_key"
  /\ Attempt("test_api_key")
  /\ \E ok \in BOOLEAN :
       /\ openai_api_key \in BadKeys => ~ok
       /\ IF ok
            THEN g_testResult' = "valid" /\ Continue("check_dataset")
            ELSE g_testResult' = "invalid" /\ ReturnFalse("test_api_key")
  /\ UNCHANGED <<env, session, chatbot, runs, locals, g_indexOp, g_embedCalls,
                 g_runIndexOps, g_sessIndexOps, g_runInitCalls, g_turn>>

\* lines 47-49
CheckDataset ==
  /\ pc = "check_dataset"
  /\ Attempt("check_dataset")
  /\ IF dataset.exists
       THEN Continue("load")
       ELSE ReturnFalse("check_dataset")
  /\ UNCHANGED <<env, session, chatbot, runs, locals, g_testResult, g_indexOp,
                 g_embedCalls, g_runIndexOps, g_sessIndexOps, g_runInitCalls,
                 g_turn>>

\* lines 51-67: CSVLoader.load, split_documents, OpenAIEmbeddings(...); any
\* of them may raise, which the except at line 128 turns into return False.
LoadAndSplit ==
  /\ pc = "load"
  /\ Attempt("load")
  /\ \E raised \in BOOLEAN :
       IF raised
         THEN ReturnFalse("load") /\ UNCHANGED docs
         ELSE Continue("index") /\ docs' = dataset.size
  /\ UNCHANGED <<env, session, chatbot, runs, openai_api_key, user_query,
                 intent, response, g_testResult, g_indexOp, g_embedCalls,
                 g_runIndexOps, g_sessIndexOps, g_runInitCalls, g_turn>>

\* Variant of IndexStep that reuses the directory only when it holds as many
\* chunks as the dataset yields, and rebuilds it otherwise.
IndexStep_rebuilds_stale ==
  /\ pc = "index"
  /\ Attempt("index")
  /\ g_runIndexOps' = g_runIndexOps + 1
  /\ g_sessIndexOps' = g_sessIndexOps + 1
  /\ IF chroma_db.exists /\ chroma_db.size = docs
       THEN /\ UNCHANGED <<chroma_db, g_embedCalls>>
            /\ Continue("retriever")
            /\ g_indexOp' = "opened"
            /\ vectorstore' = Handle(openai_api_key, chroma_db.size)
       ELSE /\ Continue("retriever")
            /\ g_indexOp' = "built"
            /\ g_embedCalls' = g_embedCalls + docs
            /\ chroma_db' = File(docs)
            /\ vectorstore' = Handle(openai_api_key, docs)
  /\ UNCHANGED <<dataset, session, retriever, chat_model, chain, runs, locals,
                 g_testResult, g_runInitCalls, g_turn>>

\* lines 69-80.  An existing chroma_db is opened as it is; otherwise every
\* chunk is embedded and a new index is written.  A build that raises has
\* embedded j of the chunks and, depending on the Chroma version, leaves
\* either nothing or a directory holding those j chunks.
IndexStep ==
  /\ pc = "index"
  /\ Attempt("index")
  /\ g_runIndexOps' = g_runIndexOps + 1
  /\ g_sessIndexOps' = g_sessIndexOps + 1
  /\ IF chroma_db.exists
       THEN /\ UNCHANGED <<chroma_db, g_embedCalls>>
            /\ \E raised \in BOOLEAN :
                 IF raised
                   THEN /\ ReturnFalse("index")
                        /\ g_indexOp' = "open_failed"
                        /\ UNCHANGED vectorstore
                   ELSE /\ Continue("retriever")
                        /\ g_indexOp' = "opened"
                        /\ vectorstore' = Handle(openai_api_key, chroma_db.size)
       ELSE \E raised \in BOOLEAN :
              IF raised
                THEN /\ ReturnFalse("index")
                     /\ g_indexOp' = "build_failed"
                     /\ UNCHANGED vectorstore
                     /\ \E j \in 0..docs :
                          /\ g_embedCalls' = g_embedCalls + j
                          /\ chroma_db' \in {NoFile, File(j)}
                ELSE /\ Continue("retriever")
                     /\ g_indexOp' = "built"
                     /\ g_embedCalls' = g_embedCalls + docs
                     /\ chroma_db' = File(docs)
                     /\ vectorstore' = Handle(openai_api_key, docs)
  /\ UNCHANGED <<dataset, session, retriever, chat_model, chain, runs, locals,
                 g_testResult, g_runInitCalls, g_turn>>

\* lines 82-86
CreateRetriever ==
  /\ pc = "retriever"
  /\ Attempt("retriever")
  /\ \E raised \in BOOLEAN :
       IF raised
         THEN ReturnFalse("retriever") /\ UNCHANGED retriever
         ELSE Continue("chat_model") /\ retriever' = vectorstore
  /\ UNCHANGED <<env, session, vectorstore, chat_model, chain, runs, locals,
                 g_testResult, g_indexOp, g_embedCalls, g_runIndexOps,
                 g_sessIndexOps, g_runInitCalls, g_turn>>

\* lines 88-93
CreateChatModel ==
  /\ pc = "chat_model"
  /\ Attempt("chat_model")
  /\ \E raised \in BOOLEAN :
       IF raised
         THEN ReturnFalse("chat_model") /\ UNCHANGED chat_model
         ELSE Continue("chain") /\ chat_model' = Handle(openai_api_key, 0)
  /\ UNCHANGED <<env, session, vectorstore, retriever, chain, runs, locals,
                 g_testResult, g_indexOp, g_embedCalls, g_runIndexOps,
                 g_sessIndexOps, g_runInitCalls, g_turn>>

\* lines 95-126: the chain joins the chat model and the retriever.
CreateChain ==
  /\ pc = "chain"
  /\ Attempt("chain")
  /\ \E raised \in BOOLEAN :
       IF raised
         THEN ReturnFalse("chain") /\ UNCHANGED chain
         ELSE ReturnTrue /\ chain' = Handle(chat_model.key, retriever.size)
  /\ UNCHANGED <<env, session, vectorstore, retriever, chat_model, runs,
                 locals, g_testResult, g_indexOp, g_embedCalls, g_runIndexOps,
                 g_sessIndexOps, g_runInitCalls, g_turn>>

\* main, lines 232-233: the flag is set when setup returned True.
InitReturn ==
  /\ pc = "init_return"
  /\ initialized' = IF g_initResult = "ok" THEN TRUE ELSE initialized
  /\ pc' = "gate"
  /\ UNCHANGED <<env, session_keys, messages, chatbot, runs, locals, g_init,
                 g_turn>>

\* Variant of MainGate without the check of the initialized flag.
MainGate_no_init_check ==
  /\ pc = "gate"
  /\ pc' = IF openai_api_key = "" THEN "return_warning" ELSE "chat"
  /\ UNCHANGED <<env, session, chatbot, runs, locals, g_init, g_turn>>

\* main, lines 235-242
MainGate ==
  /\ pc = "gate"
  /\ pc' = IF openai_api_key = "" THEN "return_warning"
           ELSE IF ~initialized THEN "return_error"
           ELSE "chat"
  /\ UNCHANGED <<env, session, chatbot, runs, locals, g_init, g_turn>>

\* ------------------------------------------------------------ chat turn
Msg(role, content) == [role |-> role, content |-> content]

\* lines 250-253 and 283-286
GreetingMsg == Msg("assistant", Greeting)

\* main, lines 244-269: the history is created on first use, the chat input
\* is read, and a submitted query is appended as the user's message.
MainChat ==
  /\ pc = "chat"
  /\ \E q \in Queries \cup {<<>>} :
       LET hist == IF "messages" \in session_keys
                     THEN messages ELSE <<GreetingMsg>>
       IN /\ user_query' = q
          /\ IF q # <<>>
               THEN /\ messages' = Append(hist, Msg("user", q))
                    /\ pc' = "classify"
               ELSE /\ messages' = hist
                    /\ pc' = "clear_button"
  /\ session_keys' = session_keys \cup {"messages"}
  /\ UNCHANGED <<env, initialized, chatbot, runs, openai_api_key, docs,
                 intent, response, g_init, g_turn>>

\* Variant of classify_query_intent whose except branch answers GENERAL.
classify_query_intent_default_general(raised, raw) ==
  IF raised THEN GENERAL ELSE Upper(Strip(raw))

\* classify_query_intent, lines 132-160, given how the predict call ended.
classify_query_intent(raised, raw) ==
  IF raised THEN PROPERTY ELSE Upper(Strip(raw))

\* Variant of get_general_response with no fallback text on failure.
get_general_response_no_fallback(raised, raw) ==
  IF raised
    THEN [raised |-> FALSE, text |-> <<>>, docs |-> <<>>]
    ELSE [raised |-> FALSE, text |-> Strip(raw), docs |-> <<>>]

\* get_general_response, lines 162-177
get_general_response(raised, raw) ==
  IF raised
    THEN [raised |-> FALSE, text |-> FallbackGreeting, docs |-> <<>>]
    ELSE [raised |-> FALSE, text |-> Strip(raw), docs |-> <<>>]

\* get_property_response, lines 179-185; n chunks are retrieved.
get_property_response(raised, raw, n) ==
  IF raised
    THEN [raised |-> FALSE, text |-> Apology, docs |-> <<>>]
    ELSE [raised |-> FALSE, text |-> raw, docs |-> [i \in 1..n |-> i]]

\* The try/except of get_response, lines 189 and 199-200, around a result.
get_response_except(r) ==
  IF r.raised
    THEN [raised |-> FALSE, text |-> Apology, docs |-> <<>>]
    ELSE r

\* get_response, line 191: one classification call.
Classify ==
  /\ pc = "classify"
  /\ \E raised \in BOOLEAN :
       \E raw \in IF raised THEN {<<>>} ELSE ClassifyReplies :
         /\ intent' = classify_query_intent(raised, raw)
         /\ g_classify' = [called |-> TRUE, raised |-> raised, raw |-> raw]
  /\ g_calls' = [g_calls EXCEPT !.classify = @ + 1]
  /\ pc' = "route"
  /\ UNCHANGED <<env, session, chatbot, runs, openai_api_key, docs,
                 user_query, response, g_init, g_generate>>

\* get_response, lines 194-197
Route ==
  /\ pc = "route"
  /\ pc' = IF intent = GENERAL THEN "general" ELSE "property"
  /\ UNCHANGED <<env, session, chatbot, runs, locals, g_init, g_turn>>

\* Variant of GeneralResponse that falls back to the retrieval path when the
\* generation call fails.
GeneralResponse_retries ==
  /\ pc = "general"
  /\ \E raised \in BOOLEAN :
       \E raw \in IF raised THEN {<<>>} ELSE GenerateReplies :
         /\ response' = get_response_except(get_general_response(raised, raw))
         /\ g_generate' = [called |-> TRUE, raised |-> raised, raw |-> raw]
         /\ pc' = IF raised THEN "property" ELSE "append"
  /\ g_calls' = [g_calls EXCEPT !.general = @ + 1]
  /\ UNCHANGED <<env, session, chatbot, runs, openai_api_key, docs,
                 user_query, intent, g_init, g_classify>>

\* get_response, line 195: the conversational generation call.
GeneralResponse ==
  /\ pc = "general"
  /\ \E raised \in BOOLEAN :
       \E raw \in IF raised THEN {<<>>} ELSE GenerateReplies :
         /\ response' = get_response_except(get_general_response(raised, raw))
         /\ g_generate' = [called |-> TRUE, raised |-> raised, raw |-> raw]
  /\ g_calls' = [g_calls EXCEPT !.general = @ + 1]
  /\ pc' = "append"
  /\ UNCHANGED <<env, session, chatbot, runs, openai_api_key, docs,
                 user_query, intent, g_init, g_classify>>

\* get_response, line 197: the retrieval chain is called; it retrieves at
\* most K chunks from the index the retriever was made from.
PropertyResponse ==
  /\ pc = "property"
  /\ \E raised \in BOOLEAN :
       \E raw \in IF raised THEN {<<>>} ELSE GenerateReplies :
         /\ response' = get_response_except(
                          get_property_response(raised, raw,
                                                Min(K, chain.size)))
         /\ g_generate' = [called |-> TRUE, raised |-> raised, raw |-> raw]
  /\ g_calls' = [g_calls EXCEPT !.property = @ + 1, !.chain = @ + 1]
  /\ pc' = "append"
  /\ UNCHANGED <<env, session, chatbot, runs, openai_api_key, docs,
                 user_query, intent, g_init, g_classify>>

\* Variant of AppendAssistant that records an answer only when it comes
\* with supporting chunks.
AppendAssistant_only_with_docs ==
  /\ pc = "append"
  /\ IF response.raised
       THEN pc' = "crashed" /\ UNCHANGED messages
       ELSE /\ messages' = IF response.docs # <<>>
                             THEN Append(messages,
                                         Msg("assistant", response.text))
                             ELSE messages
            /\ pc' = "rerun_turn"
  /\ UNCHANGED <<env, session_keys, initialized, chatbot, runs, locals,
                 g_init, g_turn>>

\* main, lines 273-279: the returned text is appended as the assistant's
\* message and the script reruns.  An exception leaving get_response would
\* end the run here.
AppendAssistant ==
  /\ pc = "append"
  /\ IF response.raised
       THEN pc' = "crashed" /\ UNCHANGED messages
       ELSE /\ messages' = Append(messages, Msg("assistant", response.text))
            /\ pc' = "rerun_turn"
  /\ UNCHANGED <<env, session_keys, initialized, chatbot, runs, locals,
                 g_init, g_turn>>

\* Variant of ClearButton that also drops the initialized flag.
ClearButton_resets_flag ==
  /\ pc = "clear_button"
  /\ \E clicked \in BOOLEAN :
       IF clicked
         THEN /\ messages' = <<GreetingMsg>>
              /\ initialized' = FALSE
              /\ pc' = "rerun_clear"
         ELSE UNCHANGED <<messages, initialized>> /\ pc' = "end"
  /\ UNCHANGED <<env, session_keys, chatbot, runs, locals, g_init, g_turn>>

\* main, lines 281-287
ClearButton ==
  /\ pc = "clear_button"
  /\ \E clicked \in BOOLEAN :
       IF clicked
         THEN messages' = <<GreetingMsg>> /\ pc' = "rerun_clear"
         ELSE UNCHANGED messages /\ pc' = "end"
  /\ UNCHANGED <<env, session_keys, initialized, chatbot, runs, locals,
                 g_init, g_turn>>

Next ==
  \/ MainStart
  \/ MainChat
  \/ Classify
  \/ Route
  \/ GeneralResponse
  \/ PropertyResponse
  \/ AppendAssistant
  \/ ClearButton
  \/ MainInitGuard
  \/ TestApiKey
  \/ CheckDataset
  \/ LoadAndSplit
  \/ IndexStep
  \/ CreateRetriever
  \/ CreateChatModel
  \/ CreateChain
  \/ InitReturn
  \/ MainGate

Spec == Init /\ [][Next]_vars

\* =============================================================== claims
InTurn == pc \in {"classify", "route", "general", "property", "append"}
Answered == pc \in {"append", "rerun_turn"}
AllBlank(s) == \A i \in 1..Len(s) : s[i] \in WS
NoUserMessage == \A i \in 1..Len(messages) : messages[i].role # "user"
ChatbotUnset ==
  vectorstore = NoneH /\ retriever = NoneH /\ chat_model = NoneH /\ chain = NoneH

\* C1: whenever the classification call raised, or returned a text whose
\* stripped, upper-cased form is not exactly GENERAL, the query goes to
\* get_property_response and never to get_general_response.
C1_FailSafeProperty ==
  (g_classify.called
     /\ (g_classify.raised \/ Upper(Strip(g_classify.raw)) # GENERAL))
  => /\ pc # "general"
     /\ g_calls.general = 0
     /\ Answered => g_calls.property = 1

C1_Witness ==
  /\ pc = "rerun_turn"
  /\ ~g_classify.raised
  /\ g_classify.raw = <<"G", "E", "N", "E", "R", "A", "L", ".">>
  /\ g_calls.property = 1

\* C2: whatever calls fail, get_response returns a pair and never raises,
\* main appends the assistant's message for the turn, and the session stays
\* initialized with its pipeline in place for the next query.
C2_TurnNeverRaises ==
  /\ pc # "crashed"
  /\ ~response.raised
  /\ pc = "rerun_turn" =>
       /\ Len(messages) >= 2
       /\ messages[Len(messages)] = Msg("assistant", response.text)
       /\ messages[Len(messages) - 1] = Msg("user", user_query)
  /\ (InTurn \/ pc = "rerun_turn") =>
       initialized /\ chat_model.set /\ chain.set

C2_Witness ==
  /\ pc = "rerun_turn"
  /\ g_classify.raised /\ g_generate.raised
  /\ Len(messages) = 5
  /\ messages[3].content = Apology

\* C3: per submitted query there is exactly one classification call and
\* exactly one generator call (property or general, never both, no retry),
\* and exactly one assistant message follows the user's message.
C3_ExactlyOnce ==
  /\ pc \in {"route", "general", "property"} =>
       g_calls.classify = 1 /\ g_calls.property + g_calls.general = 0
  /\ Answered =>
       g_calls.classify = 1 /\ g_calls.property + g_calls.general = 1
  /\ ~(InTurn \/ pc = "rerun_turn") => g_calls = NoCalls
  /\ \A i \in 1..Len(messages) :
       messages[i].role = IF i % 2 = 1 THEN "assistant" ELSE "user"
  /\ InTurn => Len(messages) % 2 = 0
  /\ pc = "rerun_turn" => Len(messages) % 2 = 1

C3_Witness ==
  /\ pc = "rerun_turn"
  /\ g_generate.raised
  /\ g_calls.general = 1 /\ g_calls.property = 0
  /\ Len(messages) = 3

\* C4: with the dataset file missing, initialize_components never returns
\* success, the session never becomes initialized, get_response is never
\* invoked and no user message ever enters the history.
C4_MissingDatasetBlocksChat ==
  ~dataset.exists =>
    /\ g_initResult # "ok"
    /\ ~initialized
    /\ ~InTurn /\ pc \notin {"chat", "clear_button", "rerun_turn"}
    /\ g_calls = NoCalls
    /\ NoUserMessage

C4_Witness ==
  /\ ~dataset.exists
  /\ "check_dataset" \in g_failed
  /\ runs >= 2
  /\ pc = "return_error"
  /\ g_initResult = "fail"

\* C5 (as claimed): after initialize_components has returned failure, the
\* flag is False, the four chatbot fields are unset and no partial index is
\* left in chroma_db.
C5_NoPartialState ==
  g_initResult = "fail" =>
    /\ ~initialized
    /\ ChatbotUnset
    /\ ~(g_indexOp = "build_failed" /\ chroma_db.exists)

\* C6 (as claimed): in a session the index is built or loaded at most once
\* and no setup step is attempted again after it failed.
C6_OncePerSession == g_sessIndexOps <= 1 /\ ~g_retried

\* C6 (amended): within one run of main, setup is called at most once, the
\* index is built or loaded at most once and no setup step is repeated;
\* once the session is initialized no setup step runs and the index is
\* never built or loaded again.
C6_OncePerRun ==
  /\ [](/\ g_runInitCalls <= 1
        /\ g_runIndexOps <= 1
        /\ \A i, j \in 1..Len(g_initLog) :
             i # j => g_initLog[i] # g_initLog[j])
  /\ [][initialized =>
          /\ g_sessIndexOps' = g_sessIndexOps
          /\ g_runInitCalls' <= g_runInitCalls
          /\ g_initLog' \in {g_initLog, <<>>}]_vars

C6_Witness ==
  /\ g_retried
  /\ g_sessIndexOps = 2
  /\ g_runIndexOps = 1
  /\ initialized

\* C7: at the index step an existing chroma_db is opened as it is and
\* nothing is embedded, whatever the dataset holds; chunks are embedded and
\* chroma_db written only when it was absent, and a completed build embeds
\* every chunk and writes them all.
C7_IdempotentReuse ==
  /\ [][pc = "index" =>
          IF chroma_db.exists
            THEN /\ chroma_db' = chroma_db
                 /\ g_embedCalls' = g_embedCalls
                 /\ vectorstore' # vectorstore =>
                      vectorstore' = Handle(openai_api_key, chroma_db.size)
            ELSE pc' = "retriever" =>
                   /\ g_embedCalls' = g_embedCalls + docs
                   /\ chroma_db' = File(docs)
                   /\ vectorstore' = Handle(openai_api_key, docs)]_vars
  /\ [][pc # "index" =>
          chroma_db' = chroma_db /\ g_embedCalls' \in {g_embedCalls, 0}]_vars

C7_Witness ==
  /\ pc = "retriever"
  /\ g_indexOp = "opened"
  /\ g_embedCalls = 0
  /\ chroma_db.size # dataset.size
  /\ g_sessIndexOps = 2

\* C8: in every run of initialize_components the validation call comes
\* first; nothing is loaded, embedded, opened or written before it, and
\* after a failed validation nothing else happens and setup returns failure.
C8_ValidationFirst ==
  /\ g_initLog # <<>> => g_initLog[1] = "test_api_key"
  /\ g_testResult = "none" =>
       docs = 0 /\ g_runIndexOps = 0 /\ g_embedCalls = 0
  /\ g_testResult = "invalid" =>
       /\ g_initLog = <<"test_api_key">>
       /\ g_initResult = "fail"
       /\ docs = 0 /\ g_runIndexOps = 0 /\ g_embedCalls = 0

C8_Witness ==
  /\ g_testResult = "invalid"
  /\ pc = "return_error"
  /\ dataset.exists
  /\ ~chroma_db.exists
  /\ openai_api_key \notin BadKeys

\* C9 (as claimed): a GENERAL query gets a non-empty answer and an empty
\* chunk list, and the chain is not invoked.
C9_GeneralNonEmpty ==
  (Answered /\ intent = GENERAL) =>
    /\ response.text # <<>>
    /\ response.docs = <<>>
    /\ g_calls.chain = 0

\* C9 (amended): a GENERAL query gets an empty chunk list and the chain is
\* not invoked; the answer is the fixed fallback greeting when the
\* generation call failed, and otherwise the model's reply without its
\* surrounding whitespace, which is empty exactly when the reply holds
\* nothing but whitespace.
C9_GeneralAnswer ==
  (Answered /\ intent = GENERAL) =>
    /\ response.docs = <<>>
    /\ g_calls.chain = 0 /\ g_calls.property = 0 /\ g_calls.general = 1
    /\ g_generate.raised => response.text = FallbackGreeting
    /\ ~g_generate.raised =>
         /\ Len(response.text) <= Len(g_generate.raw)
         /\ response.text # <<>> =>
              /\ response.text[1] \notin WS
              /\ response.text[Len(response.text)] \notin WS
    /\ response.text = <<>> <=> (~g_generate.raised /\ AllBlank(g_generate.raw))

C9_Witness ==
  /\ pc = "rerun_turn"
  /\ intent = GENERAL
  /\ g_generate.raised
  /\ response.text = FallbackGreeting

\* C10: the initialized flag starts False, is set only when setup returned
\* True, and is never unset; while it is set, setup is not invoked and the
\* chatbot keeps the pipeline and the credential it was initialized with,
\* whatever is typed into the credential field; an empty credential changes
\* nothing in that run; Clear Chat History resets the history to the single
\* greeting and touches neither the flag nor the chatbot.
C10_InitializedMonotone ==
  /\ ~initialized
  /\ [](initialized =>
          /\ vectorstore.set /\ retriever.set /\ chat_model.set /\ chain.set
          /\ vectorstore.key = chat_model.key /\ chain.key = chat_model.key
          /\ chat_model.key \in Keys \ {""})
  /\ [][/\ initialized => initialized'
        /\ (~initialized /\ initialized') =>
             (pc = "init_return" /\ g_initResult = "ok")
        /\ initialized =>
             /\ chatbot' = chatbot
             /\ g_runInitCalls' <= g_runInitCalls
             /\ g_initLog' \in {g_initLog, <<>>}
        /\ openai_api_key' = "" =>
             /\ messages' = messages
             /\ initialized' = initialized
             /\ chatbot' = chatbot
        /\ (pc = "clear_button" /\ pc' = "rerun_clear") =>
             /\ messages' = <<GreetingMsg>>
             /\ initialized' = initialized
             /\ chatbot' = chatbot]_vars

C10_Witness ==
  /\ pc = "rerun_clear"
  /\ initialized
  /\ openai_api_key # chat_model.key
  /\ messages = <<GreetingMsg>>
  /\ runs >= 3
====
